---- MODULE Spec2Model ----
(***************************************************************************)
(* Model of training-secretary: sync.py (fetch resting heart rate and      *)
(* cycling workloads, resolve the spreadsheet row of the target date,      *)
(* write the cells) and tag_commutes.py (tag outdoor rides recorded on one *)
(* device as commutes).                                                    *)
(*                                                                         *)
(* Four specifications share the variables:                                *)
(*   SpecFind  find_row_by_date applied to bounded date columns            *)
(*   SpecWork  the aggregation loop of get_strava_cycling_workloads        *)
(*   Spec      sync.py main, one step per network interaction              *)
(*   SpecTag   tag_commutes_for_date, run repeatedly on the same day       *)
(***************************************************************************)
EXTENDS Integers, Sequences, FiniteSets, TLC

VARIABLES
    pc,            \* position of the running program
    env,           \* environment variables: name -> is it set (non-empty)
    target_date,   \* main: target_date (yesterday)
    column,        \* find_row_by_date: date_column = sheet.col_values(1)
    parse_calls,   \* rows on which dateparser.parse was invoked
    activities,    \* get_strava_cycling_workloads: activities = response.json()
    kj_log,        \* the kj value of each counted activity, in loop order
    resting_hr,    \* main: resting_hr
    training_kj,   \* main: training_kj
    commute_kj,    \* main: commute_kj
    row_num,       \* main: row_num
    net,           \* network requests issued so far, in order
    writes,        \* sheet.update_cell calls issued so far, in order
    error,         \* the uncaught exception that ended the run, or "none"
    exit_code,     \* process exit code, -1 while running
    srv,           \* tag_commutes: the activities as stored by Strava
    srv0,          \* tag_commutes: srv when the current run started
    matching,      \* tag_commutes_for_date: activities (ids still to process)
    updates,       \* tag_commutes: per run, ids for which a PUT was issued
    failures,      \* tag_commutes: per run, ids whose PUT did not return 200
    run            \* tag_commutes: number of the current run

vars == <<pc, env, target_date, column, parse_calls, activities, kj_log,
          resting_hr, training_kj, commute_kj, row_num, net, writes, error,
          exit_code, srv, srv0, matching, updates, failures, run>>

findVars == <<column, parse_calls>>
workVars == <<activities, kj_log>>
syncVars == <<env, resting_hr, net, writes, exit_code>>
tagVars  == <<srv, srv0, matching, updates, failures, run>>

---------------------------------------------------------------------------
(* Bounds of the model *)

MaxRows == 3      \* longest date column
MaxActs == 2      \* longest activity list returned by Strava
MaxTagActs == 2   \* activities of the day in tag_commutes
MaxRuns == 2      \* runs of tag_commutes_for_date over the same day
Scale == 2        \* energy values are counted in 1/Scale kJ (floats)

---------------------------------------------------------------------------
(* Python values *)

\* Optional values: None, or a present value v.
None == [some |-> FALSE, v |-> 0]
Some(x) == [some |-> TRUE, v |-> x]

\* Python truthiness of an optional number: None and 0 are falsy.
Truthy(x) == x.some /\ x.v # 0

\* Python truthiness of a string: only the empty string is falsy.
StrTruthy(s) == s # ""

\* Python `a or b`: a when a is truthy, b otherwise.
Or(a, b) == IF Truthy(a) THEN a ELSE b

\* Python int() of a non-negative float held in 1/Scale units: truncation.
IntOf(x) == x \div Scale

---------------------------------------------------------------------------
(* Dates and the date column *)

Date(y, m, d) == [y |-> y, m |-> m, d |-> d]
DateTime(y, m, d, hh, mm) == [y |-> y, m |-> m, d |-> d, hh |-> hh, mm |-> mm]

\* datetime.date(): the calendar-date component.
DateOf(dt) == Date(dt.y, dt.m, dt.d)

\* Cell texts of column A. Blank, unparsable, and French-locale dates; two
\* different texts denote 20 January 2026, one of them with a time of day.
Cells == {"", " ", "n/a", "lun. 19 janv. 2026", "mar. 20 janv. 2026",
          "20/01/2026 14:30", "mer. 21 janv. 2026"}

Targets == {Date(2026, 1, 20), Date(2026, 1, 21), Date(2026, 1, 22)}

\* Result of dateparser.parse(cell_value, languages=["fr"]): a datetime, None,
\* or an exception. dateparser returns None for text it cannot parse and
\* never raises on a string.
ParsedAs(dt) == [kind |-> "datetime", dt |-> dt]
ParsedNone == [kind |-> "none", dt |-> DateTime(0, 0, 0, 0, 0)]
ParseRaises == [kind |-> "raise", dt |-> DateTime(0, 0, 0, 0, 0)]

\* A parser that raises on text it cannot parse.
dateparser_parse_strict(cell_value) ==
    CASE cell_value = "lun. 19 janv. 2026" -> ParsedAs(DateTime(2026, 1, 19, 0, 0))
      [] cell_value = "mar. 20 janv. 2026" -> ParsedAs(DateTime(2026, 1, 20, 0, 0))
      [] cell_value = "20/01/2026 14:30"   -> ParsedAs(DateTime(2026, 1, 20, 14, 30))
      [] cell_value = "mer. 21 janv. 2026" -> ParsedAs(DateTime(2026, 1, 21, 0, 0))
      [] OTHER -> ParseRaises

dateparser_parse(cell_value) ==
    CASE cell_value = "lun. 19 janv. 2026" -> ParsedAs(DateTime(2026, 1, 19, 0, 0))
      [] cell_value = "mar. 20 janv. 2026" -> ParsedAs(DateTime(2026, 1, 20, 0, 0))
      [] cell_value = "20/01/2026 14:30"   -> ParsedAs(DateTime(2026, 1, 20, 14, 30))
      [] cell_value = "mer. 21 janv. 2026" -> ParsedAs(DateTime(2026, 1, 21, 0, 0))
      [] OTHER -> ParsedNone

\* enumerate(date_column, start=1): the number of the first row.
FirstRow == 1

\* The loop of find_row_by_date from row i on; calls collects the rows on
\* which the parser was invoked. An exception of the parser propagates.
RECURSIVE ScanFrom(_, _, _, _)
ScanFrom(col, target, i, calls) ==
    IF i > Len(col)
    THEN [ret |-> None, calls |-> calls, raised |-> FALSE]
    ELSE IF ~StrTruthy(col[i])
    THEN ScanFrom(col, target, i + 1, calls)
    ELSE LET parsed_date == dateparser_parse(col[i])
             row == i - 1 + FirstRow
         IN  IF parsed_date.kind = "raise"
             THEN [ret |-> None, calls |-> calls \cup {row}, raised |-> TRUE]
             ELSE IF parsed_date.kind = "datetime" /\ DateOf(parsed_date.dt) = target
             THEN [ret |-> Some(row), calls |-> calls \cup {row}, raised |-> FALSE]
             ELSE ScanFrom(col, target, i + 1, calls \cup {row})

\* A scan that keeps the last matching row instead of returning at the first.
RECURSIVE ScanLast(_, _, _, _)
ScanLast(col, target, i, best) ==
    IF i > Len(col)
    THEN best
    ELSE LET parsed_date == dateparser_parse(col[i])
         IN  IF StrTruthy(col[i]) /\ parsed_date.kind = "datetime"
                /\ DateOf(parsed_date.dt) = target
             THEN ScanLast(col, target, i + 1, Some(i))
             ELSE ScanLast(col, target, i + 1, best)

find_row_by_date_last(col, target) ==
    [ret |-> ScanLast(col, target, 1, None), calls |-> {}, raised |-> FALSE]

find_row_by_date(col, target) == ScanFrom(col, target, 1, {})

\* All sequences over S of length at most n.
SeqsUpTo(S, n) == UNION {[1..k -> S] : k \in 0..n}

Columns == SeqsUpTo(Cells, MaxRows)

---------------------------------------------------------------------------
(* Cycling workloads (sync.py) *)

\* Strava activities. type and sport_type come in the pairs Strava reports;
\* kilojoules and calories are optional floats, held in 1/Scale kJ.
ActivityKinds == {<<"Ride", "Ride">>, <<"VirtualRide", "VirtualRide">>,
                  <<"Workout", "IndoorCycling">>, <<"Run", "Run">>}
KilojouleValues == {None, Some(0), Some(3)}
CalorieValues == {None, Some(4)}

Activities ==
    {[type |-> k[1], sport_type |-> k[2], kilojoules |-> kj, calories |-> cal,
      commute |-> c] :
        k \in ActivityKinds, kj \in KilojouleValues, cal \in CalorieValues,
        c \in BOOLEAN}

ActivityLists == SeqsUpTo(Activities, MaxActs)

\* if activity_type in ("Ride", "VirtualRide") or sport_type == "IndoorCycling"
IsCycling(activity) ==
    activity.type \in {"Ride", "VirtualRide"} \/ activity.sport_type = "IndoorCycling"

\* kj = activity.get("kilojoules") or activity.get("calories") or 0
KjOf(activity) == Or(Or(activity.kilojoules, activity.calories), Some(0)).v

\* The accumulators before the loop.
Acc0 == [commute_kj |-> 0, non_commute_kj |-> 0, commute_count |-> 0,
         non_commute_count |-> 0, log |-> <<>>]

\* for activity in activities: ... , from position i on.
RECURSIVE SumLoop(_, _, _)
SumLoop(acts, i, acc) ==
    IF i > Len(acts)
    THEN acc
    ELSE IF ~IsCycling(acts[i])
    THEN SumLoop(acts, i + 1, acc)
    ELSE LET kj == KjOf(acts[i])
         IN  IF acts[i].commute
             THEN SumLoop(acts, i + 1,
                     [acc EXCEPT !.commute_kj = @ + kj, !.commute_count = @ + 1,
                                 !.log = Append(@, kj)])
             ELSE SumLoop(acts, i + 1,
                     [acc EXCEPT !.non_commute_kj = @ + kj,
                                 !.non_commute_count = @ + 1,
                                 !.log = Append(@, kj)])

\* Lines 98-126 of get_strava_cycling_workloads: the two results (whole kJ
\* after int()) and the kj value logged for each counted activity.
CyclingWorkloads(acts) ==
    LET acc == SumLoop(acts, 1, Acc0)
    IN  IF acc.commute_count = 0 /\ acc.non_commute_count = 0
        THEN [training |-> None, commute |-> None, log |-> acc.log]
        ELSE [training |-> IF acc.non_commute_count > 0
                           THEN Some(IntOf(acc.non_commute_kj)) ELSE None,
              commute  |-> IF acc.commute_count > 0
                           THEN Some(IntOf(acc.commute_kj)) ELSE None,
              log |-> acc.log]

---------------------------------------------------------------------------
(* Values of the variables a specification does not use *)

EnvNames == {"GOOGLE_SHEET_ID", "GARMIN_EMAIL", "GARMIN_PASSWORD",
             "STRAVA_CLIENT_ID", "STRAVA_CLIENT_SECRET", "STRAVA_REFRESH_TOKEN",
             "GOOGLE_SERVICE_ACCOUNT_JSON"}

IdleFind == column = <<>> /\ parse_calls = {}
IdleWork == activities = <<>> /\ kj_log = <<>>
IdleSync ==
    /\ env = [n \in EnvNames |-> TRUE]
    /\ resting_hr = None
    /\ net = <<>>
    /\ writes = <<>>
    /\ exit_code = -1
IdleTag ==
    /\ srv = <<>>
    /\ srv0 = <<>>
    /\ matching = <<>>
    /\ updates = <<>>
    /\ failures = <<>>
    /\ run = 0

---------------------------------------------------------------------------
(* SpecFind: find_row_by_date on every bounded column and target *)

InitFind ==
    /\ pc = "find_call"
    /\ column \in Columns
    /\ target_date \in Targets
    /\ parse_calls = {}
    /\ row_num = None
    /\ error = "none"
    /\ training_kj = None
    /\ commute_kj = None
    /\ IdleWork /\ IdleSync /\ IdleTag

CallFindRow ==
    /\ pc = "find_call"
    /\ LET r == find_row_by_date(column, target_date)
       IN  /\ row_num' = r.ret
           /\ parse_calls' = r.calls
           /\ error' = IF r.raised THEN "ParserError" ELSE "none"
           /\ pc' = IF r.raised THEN "raised" ELSE "find_returned"
    /\ UNCHANGED <<column, target_date, training_kj, commute_kj>>
    /\ UNCHANGED workVars
    /\ UNCHANGED syncVars
    /\ UNCHANGED tagVars

NextFind == CallFindRow

SpecFind == InitFind /\ [][NextFind]_vars

---------------------------------------------------------------------------
(* SpecWork: the aggregation of get_strava_cycling_workloads *)

InitWork ==
    /\ pc = "work_call"
    /\ activities \in ActivityLists
    /\ kj_log = <<>>
    /\ training_kj = None
    /\ commute_kj = None
    /\ target_date = Date(2026, 1, 20)
    /\ row_num = None
    /\ error = "none"
    /\ IdleFind /\ IdleSync /\ IdleTag

CallWorkloads ==
    /\ pc = "work_call"
    /\ LET w == CyclingWorkloads(activities)
       IN  /\ training_kj' = w.training
           /\ commute_kj' = w.commute
           /\ kj_log' = w.log
    /\ pc' = "work_returned"
    /\ UNCHANGED <<activities, target_date, row_num, error>>
    /\ UNCHANGED findVars
    /\ UNCHANGED syncVars
    /\ UNCHANGED tagVars

NextWork == CallWorkloads

SpecWork == InitWork /\ [][NextWork]_vars

---------------------------------------------------------------------------
(* Spec: sync.py main *)

\* Spreadsheet columns written by main.
COL_RESTING_HR == 2
COL_TRAINING == 9
COL_COMMUTE == 10

\* Values of restingHeartRate in Garmin's daily summary (None: no data).
HRValues == {None, Some(48)}

\* raise SomeError(...) that nothing catches: the run ends with a traceback.
Raise(e) ==
    /\ pc' = "raised"
    /\ error' = e
    /\ exit_code' = 1

\* sys.exit(code), or falling off the end of main (code 0).
Exit(code) ==
    /\ pc' = "exited"
    /\ exit_code' = code
    /\ error' = "none"

Send(req) == net' = Append(net, req)

Init ==
    /\ pc = "main"
    /\ env \in [EnvNames -> BOOLEAN]
    /\ target_date \in Targets
    /\ resting_hr = None
    /\ training_kj = None
    /\ commute_kj = None
    /\ row_num = None
    /\ net = <<>>
    /\ writes = <<>>
    /\ error = "none"
    /\ exit_code = -1
    /\ IdleFind /\ IdleWork /\ IdleTag

\* main, lines 171-173: the sheet identifier is read first.
CheckSheetId ==
    /\ pc = "main"
    /\ IF ~env["GOOGLE_SHEET_ID"]
       THEN Raise("ValueError")
       ELSE pc' = "garmin_creds" /\ UNCHANGED <<error, exit_code>>
    /\ UNCHANGED <<env, target_date, resting_hr, training_kj, commute_kj,
                   row_num, net, writes>>
    /\ UNCHANGED findVars
    /\ UNCHANGED workVars
    /\ UNCHANGED tagVars

\* get_garmin_resting_hr, lines 29-33.
GarminCheckCredentials ==
    /\ pc = "garmin_creds"
    /\ IF ~env["GARMIN_EMAIL"] \/ ~env["GARMIN_PASSWORD"]
       THEN Raise("ValueError")
       ELSE pc' = "garmin_login" /\ UNCHANGED <<error, exit_code>>
    /\ UNCHANGED <<env, target_date, resting_hr, training_kj, commute_kj,
                   row_num, net, writes>>
    /\ UNCHANGED findVars
    /\ UNCHANGED workVars
    /\ UNCHANGED tagVars

\* get_garmin_resting_hr, line 36: garth.login stands outside the try block.
GarminLogin ==
    /\ pc = "garmin_login"
    /\ Send("garmin_login")
    /\ \/ pc' = "garmin_fetch" /\ UNCHANGED <<error, exit_code>>
       \/ Raise("GarminLoginError")
    /\ UNCHANGED <<env, target_date, resting_hr, training_kj, commute_kj,
                   row_num, writes>>
    /\ UNCHANGED findVars
    /\ UNCHANGED workVars
    /\ UNCHANGED tagVars

\* get_garmin_resting_hr, lines 39-46: the summary request inside try/except.
GarminFetch ==
    /\ pc = "garmin_fetch"
    /\ Send("garmin_daily_summary")
    /\ \/ \E hr \in HRValues : resting_hr' = hr
       \/ resting_hr' = None          \* except Exception: return None
    /\ pc' = "strava_token"
    /\ UNCHANGED <<env, target_date, training_kj, commute_kj, row_num, writes,
                   error, exit_code>>
    /\ UNCHANGED findVars
    /\ UNCHANGED workVars
    /\ UNCHANGED tagVars

StravaConfigured ==
    /\ env["STRAVA_CLIENT_ID"]
    /\ env["STRAVA_CLIENT_SECRET"]
    /\ env["STRAVA_REFRESH_TOKEN"]

\* get_strava_access_token (lines 49-68) as called at lines 78-81.
StravaToken ==
    /\ pc = "strava_token"
    /\ \/ /\ ~StravaConfigured        \* return None; "skipping cycling workload"
          /\ pc' = "get_sheet"
          /\ UNCHANGED <<net, error, exit_code>>
       \/ /\ StravaConfigured
          /\ Send("strava_oauth_token")
          /\ \/ pc' = "strava_list" /\ UNCHANGED <<error, exit_code>>
             \/ Raise("StravaHTTPError")   \* response.raise_for_status()
    /\ training_kj' = None
    /\ commute_kj' = None
    /\ UNCHANGED <<env, target_date, resting_hr, row_num, writes>>
    /\ UNCHANGED findVars
    /\ UNCHANGED workVars
    /\ UNCHANGED tagVars

\* get_strava_cycling_workloads, lines 84-126; activities is local to the call.
StravaActivities ==
    /\ pc = "strava_list"
    /\ Send("strava_activities")
    /\ \/ /\ Raise("StravaHTTPError")      \* response.raise_for_status()
          /\ UNCHANGED <<training_kj, commute_kj>>
       \/ /\ \E acts \in ActivityLists :
                LET w == CyclingWorkloads(acts)
                IN  training_kj' = w.training /\ commute_kj' = w.commute
          /\ pc' = "get_sheet"
          /\ UNCHANGED <<error, exit_code>>
    /\ UNCHANGED <<env, target_date, resting_hr, row_num, writes>>
    /\ UNCHANGED findVars
    /\ UNCHANGED workVars
    /\ UNCHANGED tagVars

\* get_google_sheet, lines 129-145.
GetGoogleSheet ==
    /\ pc = "get_sheet"
    /\ \/ /\ ~env["GOOGLE_SERVICE_ACCOUNT_JSON"]
          /\ Raise("ValueError")
          /\ UNCHANGED net
       \/ /\ env["GOOGLE_SERVICE_ACCOUNT_JSON"]
          /\ Send("sheets_open")
          /\ \/ pc' = "find_row" /\ UNCHANGED <<error, exit_code>>
             \/ Raise("SheetsError")
    /\ UNCHANGED <<env, target_date, resting_hr, training_kj, commute_kj,
                   row_num, writes>>
    /\ UNCHANGED findVars
    /\ UNCHANGED workVars
    /\ UNCHANGED tagVars

\* main, lines 201-207: find_row_by_date on the column the sheet returns;
\* date_column is local to the call.
FindRow ==
    /\ pc = "find_row"
    /\ Send("sheets_col_values")
    /\ \/ /\ Raise("SheetsError")
          /\ UNCHANGED row_num
       \/ \E col \in Columns :
             LET r == find_row_by_date(col, target_date)
             IN  /\ row_num' = r.ret
                 /\ IF r.raised THEN Raise("ParserError")
                    ELSE IF r.ret = None THEN Exit(1)
                    ELSE pc' = "write_hr" /\ UNCHANGED <<error, exit_code>>
    /\ UNCHANGED <<env, target_date, resting_hr, training_kj, commute_kj, writes>>
    /\ UNCHANGED findVars
    /\ UNCHANGED workVars
    /\ UNCHANGED tagVars

\* A write that lands one row below the resolved row.
WriteCellNextRow(col, value, next) ==
    /\ \/ /\ ~Truthy(value)
          /\ pc' = next
          /\ UNCHANGED <<net, writes, error, exit_code>>
       \/ /\ Truthy(value)
          /\ Send("sheets_update_cell")
          /\ writes' = Append(writes, [row |-> row_num.v + 1, col |-> col, val |-> value.v])
          /\ \/ pc' = next /\ UNCHANGED <<error, exit_code>>
             \/ Raise("SheetsError")
    /\ UNCHANGED <<env, target_date, resting_hr, training_kj, commute_kj, row_num>>
    /\ UNCHANGED findVars
    /\ UNCHANGED workVars
    /\ UNCHANGED tagVars

\* if value: sheet.update_cell(row_num, col, value)
WriteCell(col, value, next) ==
    /\ \/ /\ ~Truthy(value)
          /\ pc' = next
          /\ UNCHANGED <<net, writes, error, exit_code>>
       \/ /\ Truthy(value)
          /\ Send("sheets_update_cell")
          /\ writes' = Append(writes, [row |-> row_num.v, col |-> col, val |-> value.v])
          /\ \/ pc' = next /\ UNCHANGED <<error, exit_code>>
             \/ Raise("SheetsError")
    /\ UNCHANGED <<env, target_date, resting_hr, training_kj, commute_kj, row_num>>
    /\ UNCHANGED findVars
    /\ UNCHANGED workVars
    /\ UNCHANGED tagVars

\* main, lines 210-212.
WriteRestingHr ==
    /\ pc = "write_hr"
    /\ WriteCell(COL_RESTING_HR, resting_hr, "write_training")

\* main, lines 214-216.
WriteTraining ==
    /\ pc = "write_training"
    /\ WriteCell(COL_TRAINING, training_kj, "write_commute")

\* main, lines 218-220.
WriteCommute ==
    /\ pc = "write_commute"
    /\ WriteCell(COL_COMMUTE, commute_kj, "finish")

\* if not resting_hr and not training_kj and not commute_kj
NoData == ~Truthy(resting_hr) /\ ~Truthy(training_kj) /\ ~Truthy(commute_kj)

\* main, lines 222-226.
Finish ==
    /\ pc = "finish"
    /\ IF NoData THEN Exit(1) ELSE Exit(0)
    /\ UNCHANGED <<env, target_date, resting_hr, training_kj, commute_kj,
                   row_num, net, writes>>
    /\ UNCHANGED findVars
    /\ UNCHANGED workVars
    /\ UNCHANGED tagVars

Next ==
    \/ CheckSheetId
    \/ GarminCheckCredentials
    \/ GarminLogin
    \/ GarminFetch
    \/ StravaToken
    \/ StravaActivities
    \/ GetGoogleSheet
    \/ FindRow
    \/ WriteRestingHr
    \/ WriteTraining
    \/ WriteCommute
    \/ Finish

Spec == Init /\ [][Next]_vars

---------------------------------------------------------------------------
(* SpecTag: tag_commutes.py *)

DEVICE_NAME == "Garmin Forerunner 165"
BIKE_ID == "b6207119"

\* Activities of the day as Strava stores them: the summary fields type and
\* trainer, and the detail fields device_name, commute and gear_id.
TagKinds == {<<"Ride", FALSE>>, <<"Ride", TRUE>>, <<"VirtualRide", FALSE>>}
TagActivities ==
    {[type |-> k[1], trainer |-> k[2], device_name |-> d, commute |-> c,
      gear_id |-> g] :
        k \in TagKinds, d \in {DEVICE_NAME, "Wahoo ELEMNT"}, c \in BOOLEAN,
        g \in {BIKE_ID, "b0000001"}}

\* Line 64: the activities for which the detail is requested.
IsOutdoorRide(a) == a.type = "Ride" /\ ~a.trainer

\* get_activities_from_device, lines 61-79: the ids of the outdoor rides
\* whose detail names the device, in the order of the list.
FromDevice(s, device_name) ==
    SelectSeq([i \in 1..Len(s) |-> i],
              LAMBDA id : IsOutdoorRide(s[id]) /\ s[id].device_name = device_name)

\* The test of line 115 with `or` in place of `and`.
AlreadyTaggedEither(a) == a.commute \/ a.gear_id = BIKE_ID

\* if already_commute and current_gear == BIKE_ID
AlreadyTagged(a) == a.commute /\ a.gear_id = BIKE_ID

Elems(q) == {q[i] : i \in 1..Len(q)}

InitTag ==
    /\ pc = "tag_call"
    /\ srv \in SeqsUpTo(TagActivities, MaxTagActs)
    /\ srv0 = srv
    /\ matching = <<>>
    /\ run = 1
    /\ updates = [r \in 1..MaxRuns |-> <<>>]
    /\ failures = [r \in 1..MaxRuns |-> {}]
    /\ target_date = Date(2026, 1, 20)
    /\ training_kj = None
    /\ commute_kj = None
    /\ row_num = None
    /\ error = "none"
    /\ IdleFind /\ IdleWork /\ IdleSync

\* tag_commutes_for_date, lines 101-107, with get_activities_from_device:
\* the list request, then one detail request per outdoor ride; any of them
\* failing raises (raise_for_status).
GetActivitiesFromDevice ==
    /\ pc = "tag_call"
    /\ \/ /\ pc' = "raised"                   \* the list request fails
          /\ error' = "StravaHTTPError"
          /\ UNCHANGED matching
       \/ /\ \E id \in DOMAIN srv : IsOutdoorRide(srv[id])
          /\ pc' = "raised"                   \* a detail request fails
          /\ error' = "StravaHTTPError"
          /\ UNCHANGED matching
       \/ /\ matching' = FromDevice(srv, DEVICE_NAME)
          /\ pc' = IF matching' = <<>> THEN "tag_done" ELSE "tag_loop"
          /\ UNCHANGED error
    /\ UNCHANGED <<srv, srv0, updates, failures, run>>
    /\ UNCHANGED <<target_date, training_kj, commute_kj, row_num>>
    /\ UNCHANGED findVars
    /\ UNCHANGED workVars
    /\ UNCHANGED syncVars

\* One iteration of the loop of lines 109-122 on the detail fetched at the
\* start of the run; update_activity (lines 82-92) returns whether the PUT
\* answered 200, and Strava applies an update it answers with 200.
ProcessActivity ==
    /\ pc = "tag_loop"
    /\ matching # <<>>
    /\ LET id == Head(matching)
           activity == srv0[id]
       IN  \/ /\ AlreadyTagged(activity)      \* skipping
              /\ UNCHANGED <<srv, updates, failures>>
           \/ /\ ~AlreadyTagged(activity)
              /\ updates' = [updates EXCEPT ![run] = Append(@, id)]
              /\ \/ /\ srv' = [srv EXCEPT ![id].commute = TRUE,
                                          ![id].gear_id = BIKE_ID]
                    /\ UNCHANGED failures
                 \/ /\ failures' = [failures EXCEPT ![run] = @ \cup {id}]
                    /\ UNCHANGED srv
    /\ matching' = Tail(matching)
    /\ pc' = IF matching' = <<>> THEN "tag_done" ELSE "tag_loop"
    /\ UNCHANGED <<srv0, run, error>>
    /\ UNCHANGED <<target_date, training_kj, commute_kj, row_num>>
    /\ UNCHANGED findVars
    /\ UNCHANGED workVars
    /\ UNCHANGED syncVars

\* The script is run again over the same day.
RunAgain ==
    /\ pc = "tag_done"
    /\ run < MaxRuns
    /\ run' = run + 1
    /\ srv0' = srv
    /\ pc' = "tag_call"
    /\ UNCHANGED <<srv, matching, updates, failures, error>>
    /\ UNCHANGED <<target_date, training_kj, commute_kj, row_num>>
    /\ UNCHANGED findVars
    /\ UNCHANGED workVars
    /\ UNCHANGED syncVars

NextTag ==
    \/ GetActivitiesFromDevice
    \/ ProcessActivity
    \/ RunAgain

SpecTag == InitTag /\ [][NextTag]_vars

---------------------------------------------------------------------------
(* Properties *)

\* The cell parses to a datetime whose calendar date is d.
ParsesTo(cell, d) ==
    /\ dateparser_parse(cell).kind = "datetime"
    /\ DateOf(dateparser_parse(cell).dt) = d

\* The rows of the column whose cell parses to the target date.
MatchingRows == {i \in 1..Len(column) : ParsesTo(column[i], target_date)}

\* C1: when some cell of the column parses to the target date,
\* find_row_by_date returns the 1-based position of the lowest-numbered such
\* cell; every cell before it is empty, unparsable or another date; the
\* result is never 0.
C1_FirstMatch ==
    (pc # "find_call" /\ MatchingRows # {}) =>
        /\ pc = "find_returned"
        /\ row_num.some
        /\ row_num.v # 0
        /\ row_num.v \in MatchingRows
        /\ \A j \in MatchingRows : row_num.v <= j
        /\ \A j \in 1..(row_num.v - 1) :
              \/ column[j] = ""
              \/ dateparser_parse(column[j]).kind = "none"
              \/ DateOf(dateparser_parse(column[j]).dt) # target_date

\* An unsorted column with the target date twice, not in the first row.
C1_Witness ==
    /\ pc = "find_returned"
    /\ Len(column) = 3
    /\ column[1] = "mer. 21 janv. 2026"
    /\ MatchingRows = {2, 3}
    /\ row_num = Some(2)

\* C2: when no cell of the column parses to the target date (the empty
\* column included), find_row_by_date returns without an error, and returns
\* None, which is no row number; an unparsable cell only fails to match.
C2_AbsentWhenNoMatch ==
    (pc # "find_call" /\ MatchingRows = {}) =>
        /\ pc = "find_returned"
        /\ error = "none"
        /\ row_num = None
        /\ \A r \in 0..Len(column) : row_num # Some(r)

\* A column of at least two rows with an unparsable cell and no match.
C2_Witness ==
    /\ pc = "find_returned"
    /\ Len(column) >= 2
    /\ \E i \in 1..Len(column) : column[i] = "n/a"
    /\ MatchingRows = {}
    /\ row_num = None

\* Cells that are empty or hold only whitespace.
BlankCells == {"", " "}

\* C3: the parser is invoked only on cells holding a non-whitespace
\* character; empty and whitespace-only cells are skipped unparsed.
C3_BlankNeverParsed ==
    pc = "find_returned" => \A r \in parse_calls : column[r] \notin BlankCells

\* The energy value of an activity as the specification states it: the
\* kilojoules when present (0 included), else the calories when present,
\* else 0.
StatedEnergy(a) ==
    IF a.kilojoules.some THEN a.kilojoules.v
    ELSE IF a.calories.some THEN a.calories.v
    ELSE 0

RECURSIVE SumStated(_, _)
SumStated(acts, idx) ==
    IF idx = {}
    THEN 0
    ELSE LET i == CHOOSE j \in idx : TRUE
         IN  StatedEnergy(acts[i]) + SumStated(acts, idx \ {i})

CountedTraining(acts) ==
    {i \in 1..Len(acts) :
        /\ acts[i].type \in {"Ride", "VirtualRide"} \/ acts[i].sport_type = "IndoorCycling"
        /\ ~acts[i].commute}

CountedCommute(acts) ==
    {i \in 1..Len(acts) :
        /\ acts[i].type \in {"Ride", "VirtualRide"} \/ acts[i].sport_type = "IndoorCycling"
        /\ acts[i].commute}

\* The stated total of the activities at idx, as the integer the function
\* returns, or None when idx is empty.
StatedTotal(acts, idx) ==
    IF idx = {} THEN None ELSE Some(SumStated(acts, idx) \div Scale)

\* C4: an activity counts iff its type is Ride or VirtualRide or its
\* sport_type is IndoorCycling; the training result is the sum of the energy
\* values of the counted activities not flagged commute, absent when there
\* is none; the commute result likewise over the counted commutes.
C4_WorkloadTotals ==
    pc = "work_returned" =>
        /\ training_kj = StatedTotal(activities, CountedTraining(activities))
        /\ commute_kj = StatedTotal(activities, CountedCommute(activities))

\* The counted activities, in list order.
CountedSeq(acts) ==
    SelectSeq([i \in 1..Len(acts) |-> i],
              LAMBDA i : i \in CountedTraining(acts) \cup CountedCommute(acts))

\* C5: the energy value a counted activity contributes is its kilojoules
\* whenever present (a recorded 0 included), its calories only when the
\* kilojoules are absent, and 0 only when both are absent.
C5_EnergyValue ==
    pc = "work_returned" =>
        /\ Len(kj_log) = Len(CountedSeq(activities))
        /\ \A n \in 1..Len(kj_log) :
              kj_log[n] = StatedEnergy(activities[CountedSeq(activities)[n]])

\* The cell (col, value) is among the writes.
Written(col, value) ==
    \E i \in 1..Len(writes) : writes[i].col = col /\ writes[i].val = value.v

\* C6: a run that reaches its end exits 0 iff a row was found and at least
\* one of the three metrics was available, and then every available metric
\* was written; a metric whose value is 0 is available.
C6_ExitCode ==
    pc = "exited" =>
        /\ exit_code = 0 <=>
              /\ row_num.some
              /\ resting_hr.some \/ training_kj.some \/ commute_kj.some
        /\ exit_code = 0 =>
              /\ resting_hr.some => Written(COL_RESTING_HR, resting_hr)
              /\ training_kj.some => Written(COL_TRAINING, training_kj)
              /\ commute_kj.some => Written(COL_COMMUTE, commute_kj)

\* C7: with any required credential missing, the run ends with a
\* configuration error and no network request was issued before.
C7_MissingCredentialIsFatalFirst ==
    (\E n \in EnvNames : ~env[n]) =>
        /\ net = <<>>
        /\ pc \in {"exited", "raised"} => (pc = "raised" /\ error = "ValueError")

\* C8: a failed fetch on Garmin (login, daily summary) or on Strava (token
\* refresh, activity list) never ends the run.
C8_FetchFailureNotFatal ==
    ~(pc = "raised" /\ error \in {"GarminLoginError", "StravaHTTPError"})

\* C9: every cell write follows row resolution, targets the resolved row,
\* and is the resting heart rate in column 2, the training workload in
\* column 9 or the commute workload in column 10, each at most once and with
\* the fetched value; with no matching row, or no metric, nothing is written.
C9_Writes ==
    /\ \A i \in 1..Len(writes) :
          /\ row_num.some
          /\ writes[i].row = row_num.v
          /\ \E k \in 1..Len(net) :
                /\ net[k] = "sheets_col_values"
                /\ \A m \in 1..k : net[m] # "sheets_update_cell"
          /\ \/ writes[i].col = 2 /\ resting_hr.some /\ writes[i].val = resting_hr.v
             \/ writes[i].col = 9 /\ training_kj.some /\ writes[i].val = training_kj.v
             \/ writes[i].col = 10 /\ commute_kj.some /\ writes[i].val = commute_kj.v
    /\ \A i, j \in 1..Len(writes) : writes[i].col = writes[j].col => i = j
    /\ ~row_num.some => writes = <<>>
    /\ (~resting_hr.some /\ ~training_kj.some /\ ~commute_kj.some) => writes = <<>>

\* A run that wrote all three metrics and exited 0.
C9_Witness ==
    /\ pc = "exited"
    /\ exit_code = 0
    /\ Len(writes) = 3
    /\ row_num.v > 1

\* The condition under which an update is due, on the stored activity.
UpdateDue(a) ==
    /\ a.type = "Ride"
    /\ ~a.trainer
    /\ a.device_name = "Garmin Forerunner 165"
    /\ ~(a.commute /\ a.gear_id = "b6207119")

\* C10: in a run of tag_commutes_for_date an update is issued for an activity
\* iff it is a Ride, not on a trainer, recorded on DEVICE_NAME and not yet
\* both a commute and on BIKE_ID; once for each; a run after one whose
\* updates all succeeded issues none; a failed update does not end the run.
C10_Tagging ==
    run >= 1 =>
        /\ \A id \in Elems(updates[run]) : UpdateDue(srv0[id])
        /\ Len(updates[run]) = Cardinality(Elems(updates[run]))
        /\ pc = "tag_done" =>
              \A id \in DOMAIN srv0 : UpdateDue(srv0[id]) => id \in Elems(updates[run])
        /\ (run >= 2 /\ failures[run - 1] = {}) => updates[run] = <<>>
        /\ failures[run] \subseteq Elems(updates[run])
        /\ failures[run] # {} => pc \in {"tag_loop", "tag_done"}

\* A second run that issued nothing after a first run tagged two activities.
C10_Witness ==
    /\ pc = "tag_done"
    /\ run = 2
    /\ Len(updates[1]) = 2
    /\ failures[1] = {}
    /\ updates[2] = <<>>

====
